---------------------------- MODULE Spec2Model ----------------------------
(***************************************************************************)
(* Model of lib/ansible/module_utils/common/validation.py: the parameter   *)
(* constraint checks of an Ansible module.  Every check is a function of a *)
(* constraint specification and the parameter mapping; it either returns   *)
(* its (empty) result or raises TypeError with a rendered message.         *)
(*                                                                         *)
(* Python objects are records [t |-> type name, v |-> payload].  For the   *)
(* scalars the payload is the text str() gives, so "%s" formatting is the  *)
(* payload itself.  A str is a sequence of characters; every parameter     *)
(* name used here is one character long.  A rendered message is the        *)
(* sequence of the pieces that "%" and join() concatenate.                 *)
(***************************************************************************)
EXTENDS Integers, Sequences, FiniteSets, TLC

VARIABLES
    module_parameters,  \* the parameter mapping handed to the checks
    fn,                 \* name of the check that was called last
    arg,                \* the constraint specification it was called with
    outcome,            \* what the call did: return or raise
    passed,             \* the mapping and the specification as the caller built them
    first_outcome,      \* the outcome of the first call
    again,              \* the call has been repeated
    threads,            \* concurrent calls: position and inputs of each thread
    frames              \* concurrent calls: the result dictionaries being built

vars == <<module_parameters, fn, arg, outcome, passed, first_outcome, again, threads, frames>>

---------------------------------------------------------------------------
(* Python values *)

PyNone == [t |-> "NoneType", v |-> "None"]
PyTrue == [t |-> "bool", v |-> "True"]
PyFalse == [t |-> "bool", v |-> "False"]
PyInt(s) == [t |-> "int", v |-> s]
PyStr(s) == [t |-> "str", v |-> s]
PyList(xs) == [t |-> "list", v |-> xs]
PyDict(items) == [t |-> "dict", v |-> items]

\* x is None
IsNone(x) == x.t = "NoneType"

\* a list of str objects
StrList(names) == PyList([i \in DOMAIN names |-> PyStr(names[i])])

\* bool(x)
Truthy(x) ==
    CASE x.t = "NoneType" -> FALSE
      [] x.t = "bool" -> x.v = "True"
      [] x.t = "int" -> x.v # "0"
      [] x.t = "str" -> x.v # ""
      [] x.t = "list" -> Len(x.v) > 0
      [] x.t = "dict" -> Len(x.v) > 0

\* the number a bool or an int stands for in a comparison
Number(x) ==
    CASE x.v = "True" -> 1
      [] x.v = "False" -> 0
      [] x.v = "0" -> 0
      [] x.v = "1" -> 1

\* == that also compares the types
PyEq_same_type(x, y) == x.t = y.t /\ x.v = y.v

\* x == y; bool is a subclass of int, so True == 1 and False == 0
PyEq(x, y) ==
    IF x.t \in {"bool", "int"} /\ y.t \in {"bool", "int"}
    THEN Number(x) = Number(y)
    ELSE x.t = y.t /\ x.v = y.v

\* iterating an object: the characters of a str, the elements of a list
Iter(x) == IF x.t = "str" THEN <<PyStr(x.v)>> ELSE x.v

Range(s) == {s[i] : i \in DOMAIN s}

---------------------------------------------------------------------------
(* what a call does *)

\* no exception, and the exception TypeError(msg): its attributes
NoException == [class |-> "none", args |-> <<>>]
TypeError(msg) == [class |-> "TypeError", args |-> <<msg>>]

Return(results) ==
    [kind |-> "return", results |-> results, msg |-> <<>>, exc |-> NoException]

\* raise TypeError(msg); results is the local the check had built by then,
\* the exception carries msg only
Raise(msg, results) ==
    [kind |-> "raise", results |-> results, msg |-> msg, exc |-> TypeError(msg)]

to_native(msg) == msg

RECURSIVE Concat(_, _)
\* the texts with sep between them
Concat(sep, texts) ==
    IF Len(texts) = 0 THEN <<>>
    ELSE IF Len(texts) = 1 THEN texts[1]
    ELSE texts[1] \o <<sep>> \o Concat(sep, Tail(texts))

\* sep.join(x): the text, or TypeError when an element of x is not a str
\* (the wording of that TypeError is Python 3's)
NotStr(items) == {i \in DOMAIN items : items[i].t # "str"}
FirstNotStr(items) == CHOOSE i \in NotStr(items) : \A j \in NotStr(items) : i <= j
Join(sep, x) ==
    LET items == Iter(x)
    IN  IF NotStr(items) = {}
        THEN [ok |-> TRUE, s |-> Concat(sep, [i \in DOMAIN items |-> <<items[i].v>>])]
        ELSE [ok |-> FALSE,
              s |-> <<"sequence item ", ToString(FirstNotStr(items) - 1),
                      ": expected str instance, ", items[FirstNotStr(items)].t,
                      " found">>]

---------------------------------------------------------------------------
(* count_terms *)

is_iterable(x) == x.t \in {"list", "dict"}

\* counts the names whose value is not None
count_terms_not_None(terms, params) ==
    LET ts == IF ~is_iterable(terms) THEN PyList(<<terms>>) ELSE terms
    IN  Cardinality({x.v : x \in Range(ts.v)}
                    \cap {k \in DOMAIN params : ~IsNone(params[k])})

\* len(terms) without set(): a repeated name is counted twice
count_terms_with_repeats(terms, params) ==
    LET ts == IF ~is_iterable(terms) THEN PyList(<<terms>>) ELSE terms
    IN  Len(SelectSeq(ts.v, LAMBDA x : x.v \in DOMAIN params))

count_terms(terms, params) ==
    LET ts == IF ~is_iterable(terms) THEN PyList(<<terms>>) ELSE terms
    IN  Cardinality({x.v : x \in Range(ts.v)} \cap DOMAIN params)

---------------------------------------------------------------------------
(* check_mutually_exclusive *)

\* "== 2" for "> 1"
mutually_exclusive_results_exactly_two(terms, params) ==
    SelectSeq(Iter(terms), LAMBDA check : count_terms(check, params) = 2)

\* for check in terms: if count_terms(check) > 1: results.append(check)
mutually_exclusive_results(terms, params) ==
    SelectSeq(Iter(terms), LAMBDA check : count_terms(check, params) > 1)

\* renders results[0] only
mutually_exclusive_msg_first(results) ==
    <<"parameters are mutually exclusive: ">> \o Join("|", results[1]).s

\* full_list = ['|'.join(check) for check in results]
\* msg = "parameters are mutually exclusive: %s" % ', '.join(full_list)
mutually_exclusive_msg(results) ==
    LET full_list == [i \in DOMAIN results |-> Join("|", results[i])]
        bad == {i \in DOMAIN full_list : ~full_list[i].ok}
    IN  IF bad # {}
        THEN full_list[CHOOSE i \in bad : \A j \in bad : i <= j].s
        ELSE <<"parameters are mutually exclusive: ">>
             \o Concat(", ", [i \in DOMAIN full_list |-> full_list[i].s])

check_mutually_exclusive(terms, params) ==
    IF IsNone(terms) THEN Return(<<>>)
    ELSE LET results == mutually_exclusive_results(terms, params)
         IN  IF Len(results) > 0
             THEN Raise(to_native(mutually_exclusive_msg(results)), results)
             ELSE Return(results)

---------------------------------------------------------------------------
(* check_required_one_of *)

\* "count < len(term)" for "count == 0": every name of the term is required
required_one_of_results_all(terms, params) ==
    SelectSeq(Iter(terms), LAMBDA term : count_terms(term, params) < Len(Iter(term)))

\* for term in terms: if count_terms(term) == 0: results.append(term)
required_one_of_results(terms, params) ==
    SelectSeq(Iter(terms), LAMBDA term : count_terms(term, params) = 0)

\* for term in results: msg = ... % ', '.join(term); raise TypeError
\* the raise is inside the loop: the first element of results is rendered
required_one_of_msg(results) ==
    LET term == results[1]
        joined == Join(", ", term)
    IN  IF joined.ok
        THEN <<"one of the following is required: ">> \o joined.s
        ELSE joined.s

check_required_one_of(terms, params) ==
    IF IsNone(terms) THEN Return(<<>>)
    ELSE LET results == required_one_of_results(terms, params)
         IN  IF Len(results) > 0
             THEN Raise(to_native(required_one_of_msg(results)), results)
             ELSE Return(results)

---------------------------------------------------------------------------
(* check_required_together *)

\* counts = [count_terms(field, module_parameters) for field in term]
together_counts(term, params) ==
    [i \in DOMAIN Iter(term) |-> count_terms(Iter(term)[i], params)]

\* without the non_zero test: an untouched group is a violation too
together_violated_any_zero(term, params) ==
    0 \in Range(together_counts(term, params))

\* non_zero = [c for c in counts if c > 0]
\* if len(non_zero) > 0: if 0 in counts: results.append(term)
together_violated(term, params) ==
    LET counts == together_counts(term, params)
        non_zero == SelectSeq(counts, LAMBDA c : c > 0)
    IN  Len(non_zero) > 0 /\ 0 \in Range(counts)

required_together_results(terms, params) ==
    SelectSeq(Iter(terms), LAMBDA term : together_violated(term, params))

\* for term in results: msg = ... % ', '.join(term); raise TypeError
required_together_msg(results) ==
    LET term == results[1]
        joined == Join(", ", term)
    IN  IF joined.ok
        THEN <<"parameters are required together: ">> \o joined.s
        ELSE joined.s

check_required_together(terms, params) ==
    IF IsNone(terms) THEN Return(<<>>)
    ELSE LET results == required_together_results(terms, params)
         IN  IF Len(results) > 0
             THEN Raise(to_native(required_together_msg(results)), results)
             ELSE Return(results)

---------------------------------------------------------------------------
(* check_required_by *)

\* without the "is None" test
absent_only(key, params) ==
    key \notin DOMAIN params

\* key not in module_parameters or module_parameters[key] is None
absent_or_None(key, params) ==
    key \notin DOMAIN params \/ IsNone(params[key])

\* the list a fired driver gets: its dependents that are absent or None
\* (a str value is a one-item list)
required_by_missing(value, params) ==
    LET deps == IF value.t = "str" THEN <<value>> ELSE Iter(value)
    IN  SelectSeq(deps, LAMBDA required : absent_or_None(required.v, params))

RECURSIVE required_by_result(_, _)
\* the dict built by the first loop, in the order of requirements.items():
\* one entry per driver that is present and not None
required_by_result(items, params) ==
    IF Len(items) = 0 THEN <<>>
    ELSE LET key == items[1].k
             value == items[1].v
         IN  IF absent_or_None(key, params)
             THEN required_by_result(Tail(items), params)
             ELSE <<[k |-> key, v |-> required_by_missing(value, params)]>>
                  \o required_by_result(Tail(items), params)

\* for key, missing in result.items(): if len(missing) > 0: raise
required_by_msg(result) ==
    LET bad == {i \in DOMAIN result : Len(result[i].v) > 0}
        first == CHOOSE i \in bad : \A j \in bad : i <= j
        joined == Join(", ", PyList(result[first].v))
    IN  IF joined.ok
        THEN <<"missing parameter(s) required by '", result[first].k, "': ">>
             \o joined.s
        ELSE joined.s

check_required_by(requirements, params) ==
    IF IsNone(requirements) THEN Return(<<>>)
    ELSE LET result == required_by_result(requirements.v, params)
         IN  IF \E i \in DOMAIN result : Len(result[i].v) > 0
             THEN Raise(to_native(required_by_msg(result)), result)
             ELSE Return(result)

---------------------------------------------------------------------------
(* check_required_arguments *)

\* v.get(key, default)
Get(d, key, default) == IF key \in DOMAIN d THEN d[key] ELSE default

\* without v.get('required', False): every absent name is missing
required_arguments_missing_unflagged(items, params) ==
    LET sel == SelectSeq(items, LAMBDA kv : kv.k \notin DOMAIN params)
    IN  [i \in DOMAIN sel |-> PyStr(sel[i].k)]

\* "module_parameters.get(k) is None" for "k not in module_parameters"
required_arguments_missing_none(items, params) ==
    LET sel == SelectSeq(items, LAMBDA kv :
                   /\ Truthy(Get(kv.v, "required", PyFalse))
                   /\ (kv.k \notin DOMAIN params \/ IsNone(params[kv.k])))
    IN  [i \in DOMAIN sel |-> PyStr(sel[i].k)]

\* for (k, v) in argument_spec.items():
\*     if v.get('required', False) and k not in module_parameters: missing.append(k)
required_arguments_missing(items, params) ==
    LET sel == SelectSeq(items, LAMBDA kv :
                   Truthy(Get(kv.v, "required", PyFalse)) /\ kv.k \notin DOMAIN params)
    IN  [i \in DOMAIN sel |-> PyStr(sel[i].k)]

check_required_arguments(argument_spec, params) ==
    IF IsNone(argument_spec) THEN Return(<<>>)
    ELSE LET missing == required_arguments_missing(argument_spec.v, params)
         IN  IF Len(missing) > 0
             THEN Raise(to_native(<<"missing required arguments: ">>
                                  \o Join(", ", PyList(missing)).s), missing)
             ELSE Return(missing)

---------------------------------------------------------------------------
(* check_required_if *)

\* max_missing_count = len(requirements) whatever is_one_of is
required_if_rule_threshold(req, params) ==
    LET key == req[1].v
        val == req[2]
        requirements == req[3]
        is_one_of == IF Len(req) = 4 THEN req[4] ELSE PyFalse
        max_missing_count == Len(Iter(requirements))
        applies == key \in DOMAIN params /\ PyEq(params[key], val)
        missing == IF applies
                   THEN SelectSeq(Iter(requirements),
                                  LAMBDA check : count_terms(check, params) = 0)
                   ELSE <<>>
    IN  [append |-> Len(missing) # 0 /\ Len(missing) >= max_missing_count,
         rec |-> [missing |-> missing,
                  requires |-> IF Truthy(is_one_of) THEN "any" ELSE "all",
                  parameter |-> key,
                  value |-> val,
                  requirements |-> requirements]]

\* the record one rule builds (lines 224-245) and whether it is appended
required_if_rule(req, params) ==
    LET key == req[1].v
        val == req[2]
        requirements == req[3]
        is_one_of == IF Len(req) = 4 THEN req[4] ELSE PyFalse
        max_missing_count == IF Truthy(is_one_of) THEN Len(Iter(requirements)) ELSE 0
        applies == key \in DOMAIN params /\ PyEq(params[key], val)
        missing == IF applies
                   THEN SelectSeq(Iter(requirements),
                                  LAMBDA check : count_terms(check, params) = 0)
                   ELSE <<>>
    IN  [append |-> Len(missing) # 0 /\ Len(missing) >= max_missing_count,
         rec |-> [missing |-> missing,
                  requires |-> IF Truthy(is_one_of) THEN "any" ELSE "all",
                  parameter |-> key,
                  value |-> val,
                  requirements |-> requirements]]

RECURSIVE required_if_results(_, _)
required_if_results(reqs, params) ==
    IF Len(reqs) = 0 THEN <<>>
    ELSE LET r == required_if_rule(reqs[1], params)
         IN  (IF r.append THEN <<r.rec>> ELSE <<>>)
             \o required_if_results(Tail(reqs), params)

\* for missing in results: msg = ...; raise TypeError
required_if_msg(results) ==
    LET missing == results[1]
        joined == Join(", ", PyList(missing.missing))
    IN  IF joined.ok
        THEN <<missing.parameter, " is ", missing.value.v, " but ", missing.requires,
               " of the following are missing: ">> \o joined.s
        ELSE joined.s

check_required_if(requirements, params) ==
    IF IsNone(requirements) THEN Return(<<>>)
    ELSE LET results == required_if_results(requirements.v, params)
         IN  IF Len(results) > 0
             THEN Raise(to_native(required_if_msg(results)), results)
             ELSE Return(results)

---------------------------------------------------------------------------
(* check_missing_parameters *)

\* module_parameters.get(param): None when the key is absent
params_get(params, key) == IF key \in DOMAIN params THEN params[key] ELSE PyNone

\* "param not in module_parameters" for "not module_parameters.get(param)"
missing_parameters_list_absent(required_parameters, params) ==
    SelectSeq(Iter(required_parameters), LAMBDA param : param.v \notin DOMAIN params)

\* for param in required_parameters:
\*     if not module_parameters.get(param): missing_params.append(param)
missing_parameters_list(required_parameters, params) ==
    SelectSeq(Iter(required_parameters),
              LAMBDA param : ~Truthy(params_get(params, param.v)))

\* without "if required_parameters is None": the for loop raises on None
check_missing_parameters_unguarded(params, required_parameters) ==
    IF IsNone(required_parameters)
    THEN Raise(<<"'NoneType' object is not iterable">>, <<>>)
    ELSE LET missing_params == missing_parameters_list(required_parameters, params)
         IN  IF Len(missing_params) > 0
             THEN Raise(to_native(<<"missing required arguments: ">>
                                  \o Join(", ", PyList(missing_params)).s),
                        missing_params)
             ELSE Return(missing_params)

check_missing_parameters(params, required_parameters) ==
    IF IsNone(required_parameters) THEN Return(<<>>)
    ELSE LET missing_params == missing_parameters_list(required_parameters, params)
         IN  IF Len(missing_params) > 0
             THEN Raise(to_native(<<"missing required arguments: ">>
                                  \o Join(", ", PyList(missing_params)).s),
                        missing_params)
             ELSE Return(missing_params)

---------------------------------------------------------------------------
(* the inputs the calls are drawn from *)

\* the longest constraint specification (terms, rules or entries)
MaxTerms == 2

Names == {"a", "b", "c"}
Values == {PyNone, PyTrue, PyInt("0"), PyInt("1"), PyStr(""), PyStr("x")}
\* mappings that hold a list: an empty one (falsy) and one with an element
ListMappings ==
    {[a |-> PyList(<<>>)],
     [a |-> PyList(<<>>), b |-> PyStr("x")],
     [a |-> StrList(<<"x">>), b |-> PyList(<<>>)]}
ParamMappings == UNION {[S -> Values] : S \in SUBSET Names} \cup ListMappings

SeqsUpTo(S, n) == UNION {[1..k -> S] : k \in 0..n}
\* the item lists of a dict: no key twice
ItemsUpTo(S, n) == {s \in SeqsUpTo(S, n) : \A i, j \in DOMAIN s : i # j => s[i].k # s[j].k}

\* terms of check_mutually_exclusive and check_required_one_of: a bare name,
\* or a list of names (repeated, overlapping)
Terms ==
    {PyStr("a"), PyStr("b"), StrList(<<"a", "a">>),
     StrList(<<"a", "b">>), StrList(<<"a", "c">>), StrList(<<"a", "b", "c">>)}
TermLists == {PyNone} \cup {PyList(s) : s \in SeqsUpTo(Terms, MaxTerms)}

\* groups of check_required_together: lists of fields, a field being a name
\* or a list of names
Groups ==
    {StrList(<<>>), StrList(<<"a">>), StrList(<<"a", "b">>), StrList(<<"b", "c">>),
     StrList(<<"a", "b", "c">>), PyList(<<StrList(<<"a", "b">>), PyStr("c")>>)}
GroupLists == {PyNone} \cup {PyList(s) : s \in SeqsUpTo(Groups, MaxTerms)}

\* requirements of check_required_by: driver -> a name or a list of names
ByItems ==
    {[k |-> "a", v |-> PyStr("c")], [k |-> "a", v |-> StrList(<<"b", "c">>)],
     [k |-> "a", v |-> StrList(<<>>)], [k |-> "b", v |-> StrList(<<"c">>)],
     [k |-> "b", v |-> PyStr("a")], [k |-> "c", v |-> StrList(<<"a", "b">>)]}
ByDicts == {PyNone} \cup {PyDict(s) : s \in ItemsUpTo(ByItems, MaxTerms)}

\* argument specifications: name -> descriptor, with or without 'required'
Descriptors ==
    {[type |-> PyStr("str")], [type |-> PyStr("str"), required |-> PyTrue],
     [type |-> PyStr("str"), required |-> PyFalse]}
ArgItems == {[k |-> n, v |-> d] : n \in Names, d \in Descriptors}
ArgSpecs == {PyNone} \cup {PyDict(s) : s \in ItemsUpTo(ArgItems, MaxTerms)}

\* rules of check_required_if: [key, value, requirements] with or without
\* the fourth element
Rules ==
    {<<PyStr("a"), PyStr("x"), StrList(<<"b", "c">>)>>,
     <<PyStr("a"), PyStr("x"), StrList(<<"b", "c">>), PyTrue>>,
     <<PyStr("a"), PyInt("1"), StrList(<<"c">>), PyFalse>>,
     <<PyStr("b"), PyTrue, StrList(<<"c">>), PyTrue>>,
     <<PyStr("a"), PyStr("x"), StrList(<<>>), PyTrue>>,
     <<PyStr("b"), PyStr(""), PyList(<<StrList(<<"a", "c">>)>>)>>}
RuleLists == {PyNone} \cup {PyList(s) : s \in SeqsUpTo(Rules, MaxTerms)}

\* required_parameters of check_missing_parameters
NameLists == {PyNone} \cup {StrList(s) : s \in SeqsUpTo(Names, MaxTerms)}

---------------------------------------------------------------------------
(* the calls *)

\* terms of count_terms: those of the checks, and the same names in another
\* order or once more
CountTermsInputs ==
    Terms \cup {PyStr("c"), StrList(<<>>), StrList(<<"a">>), StrList(<<"b", "a">>), StrList(<<"a", "b", "a">>),
                StrList(<<"c", "a", "b">>)}

Checks ==
    {"check_mutually_exclusive", "check_required_one_of", "check_required_together",
     "check_required_by", "check_required_arguments", "check_required_if",
     "check_missing_parameters"}

\* name(spec, params): what the named function returns or raises
Apply(name, spec, params) ==
    CASE name = "count_terms" -> Return(count_terms(spec, params))
      [] name = "check_mutually_exclusive" -> check_mutually_exclusive(spec, params)
      [] name = "check_required_one_of" -> check_required_one_of(spec, params)
      [] name = "check_required_together" -> check_required_together(spec, params)
      [] name = "check_required_by" -> check_required_by(spec, params)
      [] name = "check_required_arguments" -> check_required_arguments(spec, params)
      [] name = "check_required_if" -> check_required_if(spec, params)
      [] name = "check_missing_parameters" -> check_missing_parameters(params, spec)

\* requirements with every str value replaced by the one-item list
required_by_normalised(requirements) ==
    PyDict([i \in DOMAIN requirements.v |->
        IF requirements.v[i].v.t = "str"
        THEN [k |-> requirements.v[i].k, v |-> PyList(<<requirements.v[i].v>>)]
        ELSE requirements.v[i]])

\* "requirements[key] = [value]" for "value = [value]" in check_required_by
inputs_after_write_back(name, spec, params) ==
    [spec |-> IF name = "check_required_by" /\ ~IsNone(spec)
              THEN required_by_normalised(spec) ELSE spec,
     params |-> params]

\* "module_parameters.pop(param, None)" for "module_parameters.get(param)"
\* in check_missing_parameters
inputs_after_pop(name, spec, params) ==
    [spec |-> spec,
     params |-> IF name = "check_missing_parameters" /\ ~IsNone(spec)
                THEN [k \in DOMAIN params \ {x.v : x \in Range(spec.v)} |-> params[k]]
                ELSE params]

\* The caller's objects after a call.  The functions read their arguments
\* ("in", "[]", .get(), .items(), len(), iteration) and assign to local names
\* only: "terms = [terms]" (line 24), "value = [value]" (line 136) and
\* "key, val, requirements, is_one_of = req" (line 229) rebind a local name,
\* append() is applied to lists the call created (lines 47, 75, 106, 139,
\* 170, 245, 250, 277).  No item or attribute of an argument is assigned.
inputs_after(name, spec, params) ==
    [spec |-> spec, params |-> params]

Pending == [kind |-> "pending", results |-> <<>>, msg |-> <<>>, exc |-> NoException]

Init ==
    /\ module_parameters \in ParamMappings
    /\ fn = "none"
    /\ arg = PyNone
    /\ outcome = Pending
    /\ passed = [params |-> module_parameters, spec |-> PyNone]
    /\ first_outcome = Pending
    /\ again = FALSE
    /\ threads = <<>>
    /\ frames = <<>>

\* the state a first call of name(spec) leaves
Called(name, spec) ==
    /\ fn' = name
    /\ outcome' = Apply(name, spec, module_parameters)
    /\ first_outcome' = outcome'
    /\ passed' = [params |-> module_parameters, spec |-> spec]
    /\ arg' = inputs_after(name, spec, module_parameters).spec
    /\ module_parameters' = inputs_after(name, spec, module_parameters).params
    /\ UNCHANGED <<again, threads, frames>>

\* Each of the next actions is the first call of a function on the mapping.

CallCountTerms ==
    /\ outcome.kind = "pending"
    /\ fn = "none"
    /\ \E terms \in CountTermsInputs : Called("count_terms", terms)

CallMutuallyExclusive ==
    /\ outcome.kind = "pending"
    /\ fn = "none"
    /\ \E terms \in TermLists : Called("check_mutually_exclusive", terms)

CallRequiredOneOf ==
    /\ outcome.kind = "pending"
    /\ fn = "none"
    /\ \E terms \in TermLists : Called("check_required_one_of", terms)

CallRequiredTogether ==
    /\ outcome.kind = "pending"
    /\ fn = "none"
    /\ \E terms \in GroupLists : Called("check_required_together", terms)

CallRequiredBy ==
    /\ outcome.kind = "pending"
    /\ fn = "none"
    /\ \E requirements \in ByDicts : Called("check_required_by", requirements)

CallRequiredArguments ==
    /\ outcome.kind = "pending"
    /\ fn = "none"
    /\ \E argument_spec \in ArgSpecs : Called("check_required_arguments", argument_spec)

CallRequiredIf ==
    /\ outcome.kind = "pending"
    /\ fn = "none"
    /\ \E requirements \in RuleLists : Called("check_required_if", requirements)

CallMissingParameters ==
    /\ outcome.kind = "pending"
    /\ fn = "none"
    /\ \E required_parameters \in NameLists : Called("check_missing_parameters", required_parameters)

\* the same function is called again with the same objects
Repeat ==
    /\ outcome.kind # "pending"
    /\ outcome' = Apply(fn, arg, module_parameters)
    /\ arg' = inputs_after(fn, arg, module_parameters).spec
    /\ module_parameters' = inputs_after(fn, arg, module_parameters).params
    /\ again' = TRUE
    /\ UNCHANGED <<fn, passed, first_outcome, threads, frames>>

\* the calls a caller makes between the two: the other checks in the usual
\* order, each with a specification that names parameters of the mapping
OtherCalls ==
    <<[fn |-> "check_required_arguments",
       spec |-> PyDict(<<[k |-> "a", v |-> [type |-> PyStr("str"), required |-> PyTrue]]>>)],
      [fn |-> "check_mutually_exclusive", spec |-> PyList(<<StrList(<<"a", "b">>)>>)],
      [fn |-> "check_required_together", spec |-> PyList(<<StrList(<<"a", "b">>)>>)],
      [fn |-> "check_required_one_of", spec |-> PyList(<<StrList(<<"a", "c">>)>>)],
      [fn |-> "check_required_if",
       spec |-> PyList(<<<<PyStr("a"), PyStr("x"), StrList(<<"b", "c">>)>>>>)],
      [fn |-> "check_required_by", spec |-> PyDict(<<[k |-> "a", v |-> PyStr("c")]>>)],
      [fn |-> "check_missing_parameters", spec |-> StrList(<<"a", "b">>)]>>

RECURSIVE params_after_calls(_, _)
\* the mapping after the calls have run on it one after the other
params_after_calls(calls, params) ==
    IF Len(calls) = 0 THEN params
    ELSE params_after_calls(Tail(calls),
                            inputs_after(calls[1].fn, calls[1].spec, params).params)

\* the other checks run on the same mapping between the first call and its
\* repetition; the caller drops their outcomes
Interleave ==
    /\ outcome.kind # "pending"
    /\ ~again
    /\ module_parameters' = params_after_calls(OtherCalls, module_parameters)
    /\ UNCHANGED <<fn, arg, outcome, passed, first_outcome, again, threads, frames>>

Next ==
    \/ CallCountTerms
    \/ CallMutuallyExclusive
    \/ CallRequiredOneOf
    \/ CallRequiredTogether
    \/ CallRequiredBy
    \/ CallRequiredArguments
    \/ CallRequiredIf
    \/ CallMissingParameters
    \/ Repeat
    \/ Interleave

Spec == Init /\ [][Next]_vars

TypeOK ==
    /\ module_parameters \in ParamMappings
    /\ outcome.kind \in {"pending", "return", "raise"}
    /\ fn \in Checks \cup {"none", "count_terms"}

---------------------------------------------------------------------------
(* calls from several threads: check_required_by and                       *)
(* check_missing_parameters, one loop iteration per step                   *)

NumThreads == 2
ThreadIds == 1..NumThreads

\* the mappings and calls of the threads
ConcMappings ==
    {[a |-> PyStr("x")],
     [a |-> PyStr("x"), b |-> PyInt("1"), c |-> PyNone],
     [a |-> PyInt("0"), b |-> PyStr("x")],
     [a |-> PyInt("1"), b |-> PyStr("x"), c |-> PyTrue]}
ConcCalls ==
    {[fn |-> "check_required_by",
      spec |-> PyDict(<<[k |-> "a", v |-> StrList(<<"b", "c">>)],
                        [k |-> "b", v |-> PyStr("a")]>>)],
     [fn |-> "check_required_by",
      spec |-> PyDict(<<[k |-> "b", v |-> PyStr("c")],
                        [k |-> "c", v |-> StrList(<<"a", "b">>)]>>)],
     [fn |-> "check_required_by", spec |-> PyNone],
     [fn |-> "check_missing_parameters", spec |-> StrList(<<"a", "b">>)],
     [fn |-> "check_missing_parameters", spec |-> StrList(<<"c", "a">>)]}

\* a shared object in place of the local: every call uses the same one
result_slot_shared(t) == 1

\* result = {} / missing_params = []: a new object bound to a local name
\* of the call's own frame
result_slot(t) == t

ConcInit ==
    /\ module_parameters = [n \in {} |-> PyNone]
    /\ fn = "none"
    /\ arg = PyNone
    /\ outcome = Pending
    /\ passed = [params |-> module_parameters, spec |-> PyNone]
    /\ first_outcome = Pending
    /\ again = FALSE
    /\ \E calls \in [ThreadIds -> ConcCalls], maps \in [ThreadIds -> ConcMappings] :
           /\ \A t, u \in ThreadIds : t # u => maps[t] # maps[u]
           /\ threads = [t \in ThreadIds |->
                            [fn |-> calls[t].fn, spec |-> calls[t].spec,
                             params |-> maps[t], pc |-> "begin", i |-> 0,
                             outcome |-> Pending]]
    /\ frames = [t \in ThreadIds |-> <<>>]

\* the thread moves on; the variables of the single-threaded calls stay
Step(t, pc, i, out, slot) ==
    /\ threads' = [threads EXCEPT ![t].pc = pc, ![t].i = i, ![t].outcome = out]
    /\ frames' = [frames EXCEPT ![result_slot(t)] = slot]
    /\ UNCHANGED <<module_parameters, fn, arg, outcome, passed, first_outcome, again>>

\* where the for loop goes after item i: the next item, or past the loop
AfterItem(items, i) == IF i < Len(items) THEN "loop" ELSE "tail"

\* result = {}; if requirements is None: return result
RequiredByBegin(t) ==
    /\ threads[t].fn = "check_required_by"
    /\ threads[t].pc = "begin"
    /\ IF IsNone(threads[t].spec)
       THEN Step(t, "done", 0, Return(<<>>), <<>>)
       ELSE Step(t, AfterItem(threads[t].spec.v, 0), 1, Pending, <<>>)

\* one iteration of "for (key, value) in requirements.items()"
RequiredByIterate(t) ==
    /\ threads[t].fn = "check_required_by"
    /\ threads[t].pc = "loop"
    /\ LET items == threads[t].spec.v
           key == items[threads[t].i].k
           value == items[threads[t].i].v
           result == frames[result_slot(t)]
       IN  Step(t, AfterItem(items, threads[t].i), threads[t].i + 1, Pending,
                IF absent_or_None(key, threads[t].params)
                THEN result
                ELSE Append(result,
                            [k |-> key,
                             v |-> required_by_missing(value, threads[t].params)]))

\* if result: for key, missing in result.items(): ... raise; return result
RequiredByEnd(t) ==
    /\ threads[t].fn = "check_required_by"
    /\ threads[t].pc = "tail"
    /\ LET result == frames[result_slot(t)]
       IN  Step(t, "done", threads[t].i,
                IF \E i \in DOMAIN result : Len(result[i].v) > 0
                THEN Raise(to_native(required_by_msg(result)), result)
                ELSE Return(result),
                result)

\* missing_params = []; if required_parameters is None: return missing_params
MissingParametersBegin(t) ==
    /\ threads[t].fn = "check_missing_parameters"
    /\ threads[t].pc = "begin"
    /\ IF IsNone(threads[t].spec)
       THEN Step(t, "done", 0, Return(<<>>), <<>>)
       ELSE Step(t, AfterItem(Iter(threads[t].spec), 0), 1, Pending, <<>>)

\* one iteration of "for param in required_parameters"
MissingParametersIterate(t) ==
    /\ threads[t].fn = "check_missing_parameters"
    /\ threads[t].pc = "loop"
    /\ LET items == Iter(threads[t].spec)
           param == items[threads[t].i]
           missing_params == frames[result_slot(t)]
       IN  Step(t, AfterItem(items, threads[t].i), threads[t].i + 1, Pending,
                IF ~Truthy(params_get(threads[t].params, param.v))
                THEN Append(missing_params, param)
                ELSE missing_params)

\* if missing_params: raise TypeError(...); return missing_params
MissingParametersEnd(t) ==
    /\ threads[t].fn = "check_missing_parameters"
    /\ threads[t].pc = "tail"
    /\ LET missing_params == frames[result_slot(t)]
       IN  Step(t, "done", threads[t].i,
                IF Len(missing_params) > 0
                THEN Raise(to_native(<<"missing required arguments: ">>
                                     \o Join(", ", PyList(missing_params)).s),
                           missing_params)
                ELSE Return(missing_params),
                missing_params)

ConcNext ==
    \/ \E t \in ThreadIds : RequiredByBegin(t)
    \/ \E t \in ThreadIds : RequiredByIterate(t)
    \/ \E t \in ThreadIds : RequiredByEnd(t)
    \/ \E t \in ThreadIds : MissingParametersBegin(t)
    \/ \E t \in ThreadIds : MissingParametersIterate(t)
    \/ \E t \in ThreadIds : MissingParametersEnd(t)

ConcSpec == ConcInit /\ [][ConcNext]_vars

---------------------------------------------------------------------------
(* vocabulary of the properties *)

Keys == DOMAIN module_parameters
Raised == outcome.kind = "raise"
Returned == outcome.kind = "return"

\* the names of a term: the one name, or the names of the list
Members(term) ==
    IF term.t = "str" THEN {term.v} ELSE {term.v[i].v : i \in DOMAIN term.v}

\* present-count: the distinct names of the term that are keys of the mapping
PresentCount(term) == Cardinality(Members(term) \cap Keys)

\* the key is in the mapping with a value other than None
Set(key) == key \in Keys /\ module_parameters[key] # PyNone

\* the constraint specification is None or has no element
EmptySpec == IsNone(arg) \/ Len(arg.v) = 0

---------------------------------------------------------------------------
\* C1: every check called with a None or empty constraint specification
\* returns normally with an empty result and raises nothing.
C1_EmptySpecReturnsEmpty ==
    (fn \in Checks /\ EmptySpec) =>
        /\ outcome.kind = "return"
        /\ outcome.results = <<>>
        /\ outcome.msg = <<>>

C1_Witness ==
    /\ fn = "check_missing_parameters"
    /\ IsNone(arg)
    /\ Keys = {}
    /\ Returned

\* C2: check_mutually_exclusive raises if and only if some term has more
\* than one distinct member among the keys of the mapping; otherwise it
\* returns the empty list.
C2_MutuallyExclusiveIff ==
    fn = "check_mutually_exclusive" =>
        /\ Raised <=> (~IsNone(arg) /\ \E i \in DOMAIN arg.v : PresentCount(arg.v[i]) > 1)
        /\ Returned => outcome.results = <<>>

C2_Witness ==
    /\ fn = "check_mutually_exclusive"
    /\ Keys = {"a", "b"}
    /\ arg = PyList(<<StrList(<<"a", "c">>), StrList(<<"a", "b">>)>>)
    /\ Raised
    /\ outcome.results = <<StrList(<<"a", "b">>)>>

\* C3: when two or more rules are violated in one call, the failure raised
\* by check_required_one_of, check_required_together, check_required_if or
\* check_required_by describes every violated rule: each name of every
\* violating term or group, each trigger and missing name of every violated
\* conditional rule, each driver and missing dependent.
C3_Described(names) == names \subseteq Range(outcome.msg)

C3_OwnMessage ==
    { "one of the following is required: ", "parameters are required together: ",
      " of the following are missing: ", "missing parameter(s) required by '" }
        \cap Range(outcome.msg) # {}

C3_AllViolationsDescribed ==
    (Raised /\ C3_OwnMessage) =>
        /\ fn = "check_required_one_of" =>
             \A i \in DOMAIN arg.v :
                 PresentCount(arg.v[i]) = 0 => C3_Described(Members(arg.v[i]))
        /\ fn = "check_required_together" =>
             \A i \in DOMAIN outcome.results :
                 C3_Described(UNION {Members(f) : f \in Range(outcome.results[i].v)})
        /\ fn = "check_required_if" =>
             \A i \in DOMAIN outcome.results :
                 C3_Described({outcome.results[i].parameter}
                              \cup UNION {Members(m) : m \in Range(outcome.results[i].missing)})
        /\ fn = "check_required_by" =>
             \A i \in DOMAIN outcome.results :
                 Len(outcome.results[i].v) > 0 =>
                     C3_Described({outcome.results[i].k}
                                  \cup {m.v : m \in Range(outcome.results[i].v)})

\* C4: the message of a failed check_mutually_exclusive is the prefix
\* followed by the violating terms, and only those, in the order of the
\* input list, each rendered as its names joined by "|", joined by ", ".
C4_Bar(term) ==
    [k \in 1..(2 * Len(term.v) - 1) |->
        IF k % 2 = 1 THEN term.v[(k + 1) \div 2].v ELSE "|"]

RECURSIVE C4_Rendered(_, _)
C4_Rendered(terms, first) ==
    IF Len(terms) = 0 THEN <<>>
    ELSE IF PresentCount(Head(terms)) > 1
    THEN (IF first THEN <<>> ELSE <<", ">>) \o C4_Bar(Head(terms))
         \o C4_Rendered(Tail(terms), FALSE)
    ELSE C4_Rendered(Tail(terms), first)

C4_MutuallyExclusiveMessage ==
    (fn = "check_mutually_exclusive" /\ Raised) =>
        outcome.msg = <<"parameters are mutually exclusive: ">> \o C4_Rendered(arg.v, TRUE)

C4_Witness ==
    /\ fn = "check_mutually_exclusive"
    /\ arg = PyList(<<StrList(<<"a", "c">>), StrList(<<"a", "b">>)>>)
    /\ Keys = {"a", "b", "c"}
    /\ outcome.msg = <<"parameters are mutually exclusive: ", "a", "|", "c", ", ", "a", "|", "b">>

\* C5: check_required_together raises if and only if some group has a
\* term with present-count > 0 and a term with present-count 0; groups
\* whose terms are all absent, or all present, never make it raise.
C5_Partial(group) ==
    /\ \E i \in DOMAIN group.v : PresentCount(group.v[i]) > 0
    /\ \E i \in DOMAIN group.v : PresentCount(group.v[i]) = 0

C5_RequiredTogetherIff ==
    fn = "check_required_together" =>
        /\ Raised <=> (~IsNone(arg) /\ \E g \in DOMAIN arg.v : C5_Partial(arg.v[g]))
        /\ Returned => outcome.results = <<>>

C5_Witness ==
    /\ fn = "check_required_together"
    /\ arg = PyList(<<StrList(<<"a", "b">>)>>)
    /\ Keys = {"a"}
    /\ Raised
    /\ outcome.msg = <<"parameters are required together: ", "a", ", ", "b">>

\* C6: check_required_one_of raises if and only if some term has none of
\* its members among the keys of the mapping; when every term has a member
\* present it returns the empty list.
C6_RequiredOneOfIff ==
    fn = "check_required_one_of" =>
        /\ Raised <=> (~IsNone(arg) /\ \E i \in DOMAIN arg.v : Members(arg.v[i]) \cap Keys = {})
        /\ Returned => outcome.results = <<>>

C6_Witness ==
    /\ fn = "check_required_one_of"
    /\ arg = PyList(<<StrList(<<"a", "b">>), StrList(<<"a", "c">>)>>)
    /\ Keys = {"b"}
    /\ Raised
    /\ outcome.results = <<StrList(<<"a", "c">>)>>

\* rules of check_required_if
RuleKey(req) == req[1].v
RuleIsAny(req) == Len(req) = 4 /\ req[4] = PyTrue
\* the trigger key is a key of the mapping and its value == the trigger value
RuleApplies(req) == RuleKey(req) \in Keys /\ PyEq(module_parameters[RuleKey(req)], req[2])
\* the requirement terms with present-count 0, in rule order
ZeroTerms(req) == SelectSeq(req[3].v, LAMBDA term : PresentCount(term) = 0)
ViolationRecord(req, label) ==
    [missing |-> ZeroTerms(req), requires |-> label, parameter |-> RuleKey(req),
     value |-> req[2], requirements |-> req[3]]
Labelled(label) == SelectSeq(outcome.results, LAMBDA r : r.requires = label)

\* C7: a rule of check_required_if with the default quantifier is violated
\* if and only if its trigger key is in the mapping with a value equal to
\* the trigger value and some requirement term has present-count 0; the
\* violation is labelled 'all' and lists exactly the terms with
\* present-count 0, in rule order.
C7_Violated ==
    SelectSeq(arg.v, LAMBDA req :
        ~RuleIsAny(req) /\ RuleApplies(req) /\ Len(ZeroTerms(req)) > 0)

C7_RequiredIfAll ==
    (fn = "check_required_if" /\ ~IsNone(arg)) =>
        /\ Labelled("all") = [i \in DOMAIN C7_Violated |-> ViolationRecord(C7_Violated[i], "all")]
        /\ Len(C7_Violated) > 0 => Raised

C7_Witness ==
    /\ fn = "check_required_if"
    /\ arg = PyList(<<<<PyStr("a"), PyStr("x"), StrList(<<"b", "c">>)>>>>)
    /\ Keys = {"a", "b"}
    /\ module_parameters["a"] = PyStr("x")
    /\ Raised
    /\ outcome.results[1].missing = <<PyStr("c")>>
    /\ outcome.results[1].requires = "all"

\* C8: a rule of check_required_if with quantifier 'any' that applies is
\* violated if and only if every requirement term has present-count 0; the
\* violation is labelled 'any' and its missing list is the whole
\* requirement list.
C8_Violated ==
    SelectSeq(arg.v, LAMBDA req :
        /\ RuleIsAny(req)
        /\ RuleApplies(req)
        /\ \A i \in DOMAIN req[3].v : PresentCount(req[3].v[i]) = 0)

C8_RequiredIfAny ==
    (fn = "check_required_if" /\ ~IsNone(arg)) =>
        /\ Labelled("any") =
               [i \in DOMAIN C8_Violated |->
                   [ViolationRecord(C8_Violated[i], "any") EXCEPT !.missing = C8_Violated[i][3].v]]
        /\ Len(C8_Violated) > 0 => Raised

\* C8 on the rules that require something: the statement above holds of
\* every 'any' rule whose requirement list is not empty.
C8_ViolatedNonEmpty == SelectSeq(C8_Violated, LAMBDA req : Len(req[3].v) > 0)

C8_RequiredIfAnyNonEmpty ==
    (fn = "check_required_if" /\ ~IsNone(arg)) =>
        /\ Labelled("any") =
               [i \in DOMAIN C8_ViolatedNonEmpty |->
                   [ViolationRecord(C8_ViolatedNonEmpty[i], "any")
                       EXCEPT !.missing = C8_ViolatedNonEmpty[i][3].v]]
        /\ Len(C8_ViolatedNonEmpty) > 0 => Raised

C8_WitnessNonEmpty ==
    /\ fn = "check_required_if"
    /\ arg = PyList(<<<<PyStr("a"), PyStr("x"), StrList(<<"b", "c">>), PyTrue>>>>)
    /\ Keys = {"a"}
    /\ module_parameters["a"] = PyStr("x")
    /\ Raised
    /\ outcome.results[1].missing = <<PyStr("b"), PyStr("c")>>
    /\ outcome.results[1].requires = "any"

\* C9: check_required_by raises if and only if some driver is a key of the
\* mapping with a value other than None and one of its dependents is absent
\* from the mapping or None; an absent or None driver never fires.
C9_Fires(item) ==
    /\ Set(item.k)
    /\ \E d \in Members(item.v) : ~Set(d)

C9_RequiredByIff ==
    fn = "check_required_by" =>
        Raised <=> (~IsNone(arg) /\ \E i \in DOMAIN arg.v : C9_Fires(arg.v[i]))

C9_Witness ==
    /\ fn = "check_required_by"
    /\ arg = PyDict(<<[k |-> "a", v |-> StrList(<<"b", "c">>)]>>)
    /\ Keys = {"a", "b"}
    /\ Set("a") /\ Set("b")
    /\ Raised
    /\ outcome.msg = <<"missing parameter(s) required by '", "a", "': ", "c">>

\* C10: whenever check_required_by returns, the dictionary it returns is
\* empty.
C10_RequiredByReturnsEmpty ==
    (fn = "check_required_by" /\ Returned) => outcome.results = <<>>

\* names joined by ", "
Commas(names) ==
    [k \in 1..(2 * Len(names) - 1) |-> IF k % 2 = 1 THEN names[(k + 1) \div 2] ELSE ", "]

\* C11: check_required_arguments raises if and only if some entry of the
\* argument specification has a true 'required' flag and a name that is not
\* a key of the mapping; the message is "missing required arguments: " and
\* those names joined by ", ".  Entries without the flag or with a false
\* one, and required names that are keys (whatever the value), are not missing.
C11_Missing ==
    SelectSeq(arg.v, LAMBDA item :
        /\ "required" \in DOMAIN item.v
        /\ item.v.required = PyTrue
        /\ item.k \notin Keys)

C11_RequiredArguments ==
    fn = "check_required_arguments" =>
        /\ Raised <=> (~IsNone(arg) /\ Len(C11_Missing) > 0)
        /\ Raised => outcome.msg = <<"missing required arguments: ">>
                                   \o Commas([i \in DOMAIN C11_Missing |-> C11_Missing[i].k])
        /\ Returned => outcome.results = <<>>

C11_Witness ==
    /\ fn = "check_required_arguments"
    /\ arg = PyDict(<<[k |-> "a", v |-> [type |-> PyStr("str"), required |-> PyTrue]],
                      [k |-> "b", v |-> [type |-> PyStr("str"), required |-> PyTrue]]>>)
    /\ Keys = {"b"}
    /\ module_parameters["b"] = PyNone
    /\ outcome.msg = <<"missing required arguments: ", "a">>

\* C12: check_missing_parameters counts a listed name as missing if and
\* only if it is absent from the mapping or its value is falsy; it raises
\* listing all such names, and returns the empty list when every listed
\* name has a truthy value.
C12_Falsy(value) == value \in {PyNone, PyFalse, PyInt("0"), PyStr(""), PyList(<<>>)}

C12_Missing ==
    SelectSeq(arg.v, LAMBDA name :
        name.v \notin Keys \/ C12_Falsy(module_parameters[name.v]))

C12_MissingParameters ==
    (fn = "check_missing_parameters" /\ ~IsNone(arg)) =>
        /\ outcome.results = C12_Missing
        /\ Raised <=> Len(C12_Missing) > 0
        /\ Raised => outcome.msg = <<"missing required arguments: ">>
                                   \o Commas([i \in DOMAIN C12_Missing |-> C12_Missing[i].v])

C12_Witness ==
    /\ fn = "check_missing_parameters"
    /\ arg = StrList(<<"a", "b">>)
    /\ Keys = {"a", "b"}
    /\ module_parameters["a"] = PyList(<<>>)
    /\ module_parameters["b"] = PyStr("x")
    /\ outcome.msg = <<"missing required arguments: ", "a">>

\* C13: count_terms returns the number of distinct names of the term that
\* are keys of the mapping; the same names in another order or repeated give
\* the same count, a bare name counts as a one-element term, and the count
\* is 0 for an empty term or an empty mapping.
C13_CountTerms ==
    fn = "count_terms" =>
        /\ Returned
        /\ outcome.results = Cardinality(Members(arg) \cap Keys)
        /\ \A other \in CountTermsInputs :
               Members(other) = Members(arg) =>
                   count_terms(other, module_parameters) = outcome.results
        /\ (Members(arg) = {} \/ Keys = {}) => outcome.results = 0

C13_Witness ==
    /\ fn = "count_terms"
    /\ arg = StrList(<<"a", "b", "a">>)
    /\ Keys = {"a", "b"}
    /\ outcome.results = 2

\* C14: the failure check_required_if raises carries the structured
\* results: the exception has a results attribute holding one record per
\* violated rule.
C14_FailureCarriesResults ==
    (fn = "check_required_if" /\ Raised) =>
        /\ "results" \in DOMAIN outcome.exc
        /\ outcome.exc.results = outcome.results

\* C15: check_mutually_exclusive called with a flat list of names raises
\* when two or more of those names are keys of the mapping.
C15_FlatList ==
    (/\ fn = "check_mutually_exclusive"
     /\ ~IsNone(arg)
     /\ \A i \in DOMAIN arg.v : arg.v[i].t = "str"
     /\ Cardinality({arg.v[i].v : i \in DOMAIN arg.v} \cap Keys) > 1)
        => Raised

\* C16: check_mutually_exclusive, check_required_one_of,
\* check_required_together and check_required_arguments depend on the keys
\* of the mapping only (a key whose value is None is present): the outcome
\* is the one the same keys give with every value None.  For
\* check_required_by a key whose value is None is the same as no key: the
\* outcome is the one the mapping without its None-valued keys gives.
C16_KeysOnly == [k \in Keys |-> PyNone]
C16_WithoutNone == [k \in {n \in Keys : module_parameters[n] # PyNone} |-> module_parameters[k]]

C16_Presence ==
    /\ fn \in {"check_mutually_exclusive", "check_required_one_of",
               "check_required_together", "check_required_arguments"}
           => outcome = Apply(fn, arg, C16_KeysOnly)
    /\ fn = "check_required_by" => outcome = Apply(fn, arg, C16_WithoutNone)

C16_Witness ==
    /\ fn = "check_mutually_exclusive"
    /\ arg = PyList(<<StrList(<<"a", "b">>)>>)
    /\ Keys = {"a", "b"}
    /\ module_parameters["a"] = PyNone
    /\ module_parameters["b"] = PyInt("1")
    /\ Raised

C19_NoCrossTypeMatch ==
    (fn = "check_required_if" /\ ~IsNone(arg)) =>
        \A i \in DOMAIN arg.v :
            (/\ arg.v[i][1].v \in Keys
             /\ module_parameters[arg.v[i][1].v].t # arg.v[i][2].t)
                => ~\E j \in DOMAIN outcome.results :
                        /\ outcome.results[j].parameter = arg.v[i][1].v
                        /\ outcome.results[j].value = arg.v[i][2]

\* C19 as the code has it: the comparison is Python's ==, for which a bool
\* is the integer it stands for.  A rule applies when the value and the
\* trigger are the same value or the same number (True and 1, False and 0),
\* and never when one is a str or None and the other is not; a rule with
\* trigger 1 and all its requirement terms absent is violated on True.
C19_Equal(x, y) ==
    \/ x = y
    \/ {x, y} \subseteq {PyTrue, PyInt("1")}
    \/ {x, y} \subseteq {PyFalse, PyInt("0")}

C19_AllAbsent(req) ==
    /\ Len(req[3].v) > 0
    /\ \A i \in DOMAIN req[3].v : PresentCount(req[3].v[i]) = 0

C19_PythonEquality ==
    (fn = "check_required_if" /\ ~IsNone(arg)) =>
        (Raised <=> \E i \in DOMAIN arg.v :
                        /\ arg.v[i][1].v \in Keys
                        /\ C19_Equal(module_parameters[arg.v[i][1].v], arg.v[i][2])
                        /\ \E t \in DOMAIN arg.v[i][3].v : PresentCount(arg.v[i][3].v[t]) = 0
                        /\ (RuleIsAny(arg.v[i]) => C19_AllAbsent(arg.v[i])))

C19_Witness ==
    /\ fn = "check_required_if"
    /\ arg = PyList(<<<<PyStr("a"), PyInt("1"), StrList(<<"c">>), PyFalse>>>>)
    /\ Keys = {"a"}
    /\ module_parameters["a"] = PyTrue
    /\ Raised
    /\ outcome.msg = <<"a", " is ", "1", " but ", "all", " of the following are missing: ", "c">>

C21_Without(removed) == [k \in Keys \ removed |-> module_parameters[k]]

C21_With(added, value) ==
    [k \in Keys \cup added |-> IF k \in Keys THEN module_parameters[k] ELSE value]

C21_Monotone ==
    /\ (fn = "check_mutually_exclusive" /\ Returned) =>
           \A removed \in SUBSET Keys :
               check_mutually_exclusive(arg, C21_Without(removed)).kind = "return"
    /\ (fn = "check_required_one_of" /\ Returned) =>
           \A added \in SUBSET (Names \ Keys), value \in {PyNone, PyStr("x")} :
               check_required_one_of(arg, C21_With(added, value)).kind = "return"

C21_Witness ==
    /\ fn = "check_mutually_exclusive"
    /\ arg = PyList(<<StrList(<<"a", "b">>), StrList(<<"a", "c">>)>>)
    /\ Keys = {"b", "c"}
    /\ Returned
    /\ check_mutually_exclusive(arg, [k \in Names |-> PyStr("x")]).kind = "raise"

\* C22: every name check_required_arguments reports missing is reported
\* missing by check_missing_parameters called on the names flagged
\* required, so when check_missing_parameters returns on those names
\* check_required_arguments returns too.  The converse fails: a required
\* key with a falsy value fails check_missing_parameters only.
C22_RequiredNames ==
    LET flagged == SelectSeq(arg.v, LAMBDA item :
                       "required" \in DOMAIN item.v /\ item.v.required = PyTrue)
    IN  PyList([i \in DOMAIN flagged |-> PyStr(flagged[i].k)])

C22_AbsenceStronger ==
    (fn = "check_required_arguments" /\ ~IsNone(arg)) =>
        LET other == check_missing_parameters(module_parameters, C22_RequiredNames)
        IN  /\ Range(outcome.results) \subseteq Range(other.results)
            /\ other.kind = "return" => Returned

C22_Witness ==
    /\ fn = "check_required_arguments"
    /\ arg = PyDict(<<[k |-> "a", v |-> [type |-> PyStr("str"), required |-> PyTrue]],
                      [k |-> "b", v |-> [type |-> PyStr("str")]]>>)
    /\ Keys = {"a"}
    /\ module_parameters["a"] = PyInt("0")
    /\ Returned
    /\ check_missing_parameters(module_parameters, C22_RequiredNames).kind = "raise"

===========================================================================
